---- MODULE Spec2Model ----
(***************************************************************************)
(* Math Sprint (src/Math.py): a timed mental-arithmetic quiz.              *)
(*                                                                         *)
(* Time is counted in half-second ticks of time.perf_counter(): every      *)
(* value of the clock the model uses (k/2 seconds) is exactly              *)
(* representable as a Python float, and so are their differences.          *)
(* Text (an input line, a displayed expression) is a sequence of           *)
(* one-character strings.  The source's operator characters U+00D7 and     *)
(* U+00F7 are written "x" and "/" here.                                    *)
(***************************************************************************)
EXTENDS Integers, Sequences, FiniteSets, TLC

VARIABLES
    d,          \* game_round: the Difficulty being played
    pc,         \* position: in game_round "setup", "loop", "ask", "input",
                \* "got", "timed", "counted", "right", "streaked", "wrong",
                \* "stopped", "raised"; outside a round "idle", "returned"
    now,        \* time.perf_counter(), in half-second ticks
    end_time,   \* game_round local
    score,      \* game_round local
    asked,      \* game_round local
    streak,     \* game_round local
    times,      \* game_round local: latencies, in ticks
    ans,        \* game_round local: the correct answer of the open question
    t0,         \* game_round local: the clock when the prompt was issued
    user_in,    \* game_round local: the last stripped input line
    stop,       \* how the loop was left: "none", "normal", "aborted"
    result,     \* the returned tuple <<score, asked, times>>, or <<>> before return
    hist,       \* history: one [t, correct] record per judged answer
    draw,       \* make_problem: the random values of the last call
    problem,    \* make_problem: the last returned [q, ans]
    file,       \* the score file HIGHSCORE_FILE
    call,       \* maybe_update_highscore: the arguments of the last call
    saved,      \* maybe_update_highscore: the save_highscore call it made
    ret,        \* maybe_update_highscore: what the last call returned
    file0,      \* history: the score file before the first round end
    subm,       \* history: per name, the highest score submitted so far
    clean,      \* history: no call raised and no save failed so far
    args,       \* points_for: the arguments of the call
    gained,        \* points_for: the value returned
    sargs,      \* round_summary: the arguments of the call
    summary,    \* round_summary: the text returned, by field
    procs,      \* two racing processes at round end: position and locals
    written     \* two racing processes: the text the file holds

rvars == <<d, pc, now, end_time, score, asked, streak, times, ans, t0,
           user_in, stop, result, hist>>

pvars == <<draw, problem>>

hvars == <<file, call, saved, ret, file0, subm, clean>>

fvars == <<args, gained>>

svars == <<sargs, summary>>

cvars == <<procs, written>>

\* the variables of the calls modelled on their own
ovars == <<fvars, svars, cvars>>

vars == <<rvars, pvars, hvars, ovars>>

----------------------------------------------------------------------------
(* Bounds of the model *)

MaxRoundSeconds == 1    \* round_seconds ranges over 0..MaxRoundSeconds
MaxOverrun == 2         \* the clock stops that many ticks after the deadline
MaxAsked == 2           \* questions issued per round
RoundMax == 1           \* operands of the round's profile range over 0..RoundMax

----------------------------------------------------------------------------
(* Small helpers *)

Min2(x, y) == IF x <= y THEN x ELSE y

Max2(x, y) == IF x >= y THEN x ELSE y

----------------------------------------------------------------------------
(* Text: str.strip(), int(str), and the formatting of an int by an f-string *)

DigitChars == <<"0", "1", "2", "3", "4", "5", "6", "7", "8", "9">>

IsDigit(c) == \E i \in 1..10 : DigitChars[i] = c

DigitVal(c) == (CHOOSE i \in 1..10 : DigitChars[i] = c) - 1

RECURSIVE LStrip(_)
LStrip(s) == IF s # <<>> /\ Head(s) = " " THEN LStrip(Tail(s)) ELSE s

RECURSIVE RStrip(_)
RStrip(s) ==
    IF s # <<>> /\ s[Len(s)] = " " THEN RStrip(SubSeq(s, 1, Len(s) - 1)) ELSE s

\* str.strip()
Strip(s) == RStrip(LStrip(s))

\* the value of a digit string, underscores skipped
RECURSIVE DigitsValue(_, _)
DigitsValue(s, acc) ==
    IF s = <<>> THEN acc
    ELSE IF Head(s) = "_" THEN DigitsValue(Tail(s), acc)
    ELSE DigitsValue(Tail(s), 10 * acc + DigitVal(Head(s)))

\* the digits of an int literal: digits, with single underscores between them
ValidDigits(s) ==
    /\ s # <<>>
    /\ \A i \in 1..Len(s) : IsDigit(s[i]) \/ s[i] = "_"
    /\ IsDigit(s[1])
    /\ IsDigit(s[Len(s)])
    /\ \A i \in 1..(Len(s) - 1) : ~(s[i] = "_" /\ s[i + 1] = "_")

\* int(s) for a str s: ok = FALSE stands for ValueError
PyIntStr(s) ==
    LET st == Strip(s)
        signed == st # <<>> /\ Head(st) \in {"+", "-"}
        body == IF signed THEN Tail(st) ELSE st
        sign == IF signed /\ Head(st) = "-" THEN -1 ELSE 1
    IN  IF ValidDigits(body)
        THEN [ok |-> TRUE, val |-> sign * DigitsValue(body, 0)]
        ELSE [ok |-> FALSE, val |-> 0]

RECURSIVE FormatNat(_)
FormatNat(n) ==
    IF n < 10 THEN <<DigitChars[n + 1]>>
    ELSE FormatNat(n \div 10) \o <<DigitChars[(n % 10) + 1]>>

\* f"{n}" for an int n
FormatInt(n) == IF n < 0 THEN <<"-">> \o FormatNat(-n) ELSE FormatNat(n)

----------------------------------------------------------------------------
(* The catalog and the problem generator *)

Easy == [name |-> "Easy", n_min |-> 0, n_max |-> 10,
         ops |-> <<"+", "-">>, round_seconds |-> 60]

Normal == [name |-> "Normal", n_min |-> 1, n_max |-> 20,
           ops |-> <<"+", "-", "x">>, round_seconds |-> 75]

Hard == [name |-> "Hard", n_min |-> 2, n_max |-> 50,
         ops |-> <<"+", "-", "x", "/">>, round_seconds |-> 90]

Insane == [name |-> "Insane", n_min |-> 5, n_max |-> 120,
           ops |-> <<"+", "-", "x", "/", "+">>, round_seconds |-> 120]

DIFFICULTIES == <<Easy, Normal, Hard, Insane>>

\* Draws without the clamp of the divisor range to 1 and above
DrawsUnclamped(dd) ==
    [i : 1..Len(dd.ops),
     a : dd.n_min..dd.n_max,
     b : dd.n_min..dd.n_max,
     divisor : dd.n_min..dd.n_max,
     quotient : dd.n_min..dd.n_max]

\* the random values one call of make_problem may consume, in source order:
\* the index chosen by random.choice(d.ops), the operands a and b, and for a
\* division the divisor and the quotient
Draws(dd) ==
    [i : 1..Len(dd.ops),
     a : dd.n_min..dd.n_max,
     b : dd.n_min..dd.n_max,
     divisor : Max2(1, dd.n_min)..Max2(1, dd.n_max),
     quotient : dd.n_min..dd.n_max]

Expr(a, op, b) == FormatInt(a) \o <<" ", op, " ">> \o FormatInt(b)

\* make_problem without the reordering of the operands of a subtraction
make_problem_unordered(dd, r) ==
    LET op == dd.ops[r.i]
    IN  IF op = "+" THEN [q |-> Expr(r.a, "+", r.b), ans |-> r.a + r.b]
        ELSE IF op = "-" THEN [q |-> Expr(r.a, "-", r.b), ans |-> r.a - r.b]
        ELSE IF op = "x" THEN [q |-> Expr(r.a, "x", r.b), ans |-> r.a * r.b]
        ELSE IF op = "/" THEN
            LET b == r.divisor
                a == r.quotient * b
            IN  [q |-> Expr(a, "/", b), ans |-> r.quotient]
        ELSE [q |-> Expr(r.a, "+", r.b), ans |-> r.a + r.b]

make_problem(dd, r) ==
    LET op == dd.ops[r.i]
    IN  IF op = "+" THEN [q |-> Expr(r.a, "+", r.b), ans |-> r.a + r.b]
        ELSE IF op = "-" THEN
            LET a == Max2(r.a, r.b)
                b == Min2(r.a, r.b)
            IN  [q |-> Expr(a, "-", b), ans |-> a - b]
        ELSE IF op = "x" THEN [q |-> Expr(r.a, "x", r.b), ans |-> r.a * r.b]
        ELSE IF op = "/" THEN
            LET b == r.divisor
                a == r.quotient * b
            IN  [q |-> Expr(a, "/", b), ans |-> r.quotient]
        ELSE [q |-> Expr(r.a, "+", r.b), ans |-> r.a + r.b]

----------------------------------------------------------------------------
(* Scoring.  answer_time is in half-second ticks.                          *)

FiveSeconds == 10       \* 5.0 s, in ticks

\* the largest power of two that is <= n, for n >= 1
RECURSIVE Pow2Floor(_)
Pow2Floor(n) == IF n < 2 THEN 1 ELSE 2 * Pow2Floor(n \div 2)

\* The double 1.0 + min(0.5, 0.10 * streak) is tenths/10 + MultErr/5 ulp(1.0):
\* 1.0 and 1.5 are exact, 1.1 is 0.4 ulp high, 1.2 is 0.2 ulp low, 1.3 is
\* 0.2 ulp high, 1.4 is 0.4 ulp low.
MultErr(tenths) ==
    CASE tenths = 11 -> 2
      [] tenths = 12 -> -1
      [] tenths = 13 -> 1
      [] tenths = 14 -> -2
      [] OTHER -> 0

\* int(round(x * mult)) for the integer-valued double x and the double mult
\* above.  The exact product is n/10 with n = x * tenths.  Off a tie the
\* representation error of mult is far too small to matter.  On a tie k + 0.5
\* the double product is k + 0.5 exactly, and round() goes to the even
\* neighbour, unless the error carried by mult, x * MultErr/5 ulp(1.0),
\* exceeds half an ulp of the product, Pow2Floor(k)/2 ulp(1.0): then the
\* double product lies on that side of the tie.
RoundProduct(x, tenths) ==
    LET n == x * tenths
        k == n \div 10
        rem == n % 10
        e == 2 * MultErr(tenths) * x
        half == 5 * Pow2Floor(k)
    IN  IF rem < 5 THEN k
        ELSE IF rem > 5 THEN k + 1
        ELSE IF e > half THEN k + 1
        ELSE IF e < -half THEN k
        ELSE IF k % 2 = 0 THEN k ELSE k + 1

\* points_for without the cap of the streak bonus at 50%
points_for_uncapped(answer_time, correct, streak_arg) ==
    IF ~correct THEN 0
    ELSE
        LET pts0 == 100
            speed_bonus == Max2(0, 150 - 15 * Min2(answer_time, FiveSeconds))
            tenths == 10 + streak_arg
        IN  (((pts0 + speed_bonus) * tenths) + 5) \div 10

\* points_for without the clamps of the speed bonus
points_for_unclamped(answer_time, correct, streak_arg) ==
    IF ~correct THEN 0
    ELSE
        LET pts0 == 100
            speed_bonus == 150 - 15 * answer_time
            tenths == 10 + Min2(5, streak_arg)
        IN  RoundProduct(pts0 + speed_bonus, tenths)

\* points_for with a speed bonus that grows with the answer time
points_for_rising(answer_time, correct, streak_arg) ==
    IF ~correct THEN 0
    ELSE
        LET pts0 == 100
            speed_bonus == Max2(0, 15 * Min2(answer_time, FiveSeconds))
            tenths == 10 + Min2(5, streak_arg)
        IN  RoundProduct(pts0 + speed_bonus, tenths)

\* points_for without the early return for a wrong answer
points_for_always(answer_time, correct, streak_arg) ==
    LET pts0 == 100
        speed_bonus == Max2(0, 150 - 15 * Min2(answer_time, FiveSeconds))
        tenths == 10 + Min2(5, streak_arg)
    IN  RoundProduct(pts0 + speed_bonus, tenths)

points_for(answer_time, correct, streak_arg) ==
    IF ~correct THEN 0
    ELSE
        LET pts == 100
            \* 150.0 * (1.0 - min(answer_time, 5.0) / 5.0), an integer on ticks
            speed_bonus == Max2(0, 150 - 15 * Min2(answer_time, FiveSeconds))
            \* 10 * (1.0 + min(0.5, 0.10 * streak))
            tenths == 10 + Min2(5, streak_arg)
        IN  RoundProduct(pts + speed_bonus, tenths)

----------------------------------------------------------------------------
(* game_round *)

\* the profiles a round is played with: all four operators over 0..RoundMax
RoundProfiles ==
    {[name |-> "Easy", n_min |-> 0, n_max |-> RoundMax,
      ops |-> <<"+", "-", "x", "/">>, round_seconds |-> rs] :
        rs \in 0..MaxRoundSeconds}

\* the lines the player may type
InputLines ==
    {FormatInt(n) : n \in 0..(2 * RoundMax)}
        \cup {<<>>, <<"x">>, <<" ", "1", " ">>, <<"+", "1">>, <<"0", "1">>,
              <<"1", "x">>, <<"-", "1">>}

\* line 103: game_round(d) is entered, nothing has run yet
RoundStart ==
    /\ d \in RoundProfiles
    /\ now = 0
    /\ end_time = 0
    /\ score = 0
    /\ asked = 0
    /\ streak = 0
    /\ times = <<>>
    /\ pc = "setup"
    /\ ans = 0
    /\ t0 = 0
    /\ user_in = <<>>
    /\ stop = "none"
    /\ result = <<>>
    /\ hist = <<>>

\* RoundInit with the duration clamped to at least one second
RoundInitClamped ==
    [end_time |-> now + 2 * Max2(1, d.round_seconds), score |-> 0,
     asked |-> 0, streak |-> 0, times |-> <<>>]

\* lines 104-108: the locals when the loop is first reached
RoundInit ==
    [end_time |-> now + 2 * d.round_seconds, score |-> 0, asked |-> 0,
     streak |-> 0, times |-> <<>>]

\* lines 104-109: the locals are set and the try is entered
Setup ==
    /\ pc = "setup"
    /\ end_time' = RoundInit.end_time
    /\ score' = RoundInit.score
    /\ asked' = RoundInit.asked
    /\ streak' = RoundInit.streak
    /\ times' = RoundInit.times
    /\ pc' = "loop"
    /\ UNCHANGED <<d, now, ans, t0, user_in, stop, result, hist>>
    /\ UNCHANGED <<pvars, hvars, ovars>>

\* the positions at which the next statement reads the clock or waits: line
\* 110 ("loop"), line 114 ("ask"), line 115-116 ("input")
ClockPoints == {"loop", "ask", "input"}

\* the positions inside the try at which no input is awaited: lines 110-114
\* and the statements after input() has returned
RunningPoints ==
    {"loop", "ask", "got", "timed", "counted", "right", "streaked", "wrong"}

\* time.perf_counter() advances while the round runs; lines 117-133 read no
\* clock, so time passing there is time passing before the next check of
\* line 110
Tick ==
    /\ pc \in ClockPoints
    /\ now < end_time + MaxOverrun
    /\ now' = now + 1
    /\ UNCHANGED <<d, pc, end_time, score, asked, streak, times, ans, t0,
                   user_in, stop, result, hist>>
    /\ UNCHANGED <<pvars, hvars, ovars>>

\* LoopEnter comparing with <= : a question is still issued at the deadline
LoopEnterLate ==
    /\ pc = "loop"
    /\ now <= end_time
    /\ asked < MaxAsked
    /\ pc' = "ask"
    /\ UNCHANGED <<d, now, end_time, score, asked, streak, times, ans, t0,
                   user_in, stop, result, hist>>
    /\ UNCHANGED <<pvars, hvars, ovars>>

\* line 110, condition true
LoopEnter ==
    /\ pc = "loop"
    /\ now < end_time
    /\ asked < MaxAsked
    /\ pc' = "ask"
    /\ UNCHANGED <<d, now, end_time, score, asked, streak, times, ans, t0,
                   user_in, stop, result, hist>>
    /\ UNCHANGED <<pvars, hvars, ovars>>

\* line 110, condition false; line 138
LoopExit ==
    /\ pc = "loop"
    /\ ~(now < end_time)
    /\ pc' = "stopped"
    /\ stop' = "normal"
    /\ result' = <<score, asked, times>>
    /\ UNCHANGED <<d, now, end_time, score, asked, streak, times, ans, t0,
                   user_in, hist>>
    /\ UNCHANGED <<pvars, hvars, ovars>>

\* lines 111-114: the problem is made and shown, the prompt time is read
Ask ==
    /\ pc = "ask"
    /\ \E r \in Draws(d) : ans' = make_problem(d, r).ans
    /\ t0' = now
    /\ pc' = "input"
    /\ UNCHANGED <<d, now, end_time, score, asked, streak, times, user_in,
                   stop, result, hist>>
    /\ UNCHANGED <<pvars, hvars, ovars>>

\* Judged counting a correct answer twice in the streak
JudgedDoubleStreak(line, t, a, sc, st) ==
    LET stripped == Strip(line)
        parsed == PyIntStr(stripped)
        correct == parsed.ok /\ parsed.val = a
    IN  IF correct
        THEN [user_in |-> stripped, correct |-> TRUE, streak |-> st + 2,
              score |-> sc + points_for(t, TRUE, st + 1)]
        ELSE [user_in |-> stripped, correct |-> FALSE, streak |-> 0,
              score |-> sc]

\* Judged scoring with the streak before the increment
JudgedStaleStreak(line, t, a, sc, st) ==
    LET stripped == Strip(line)
        parsed == PyIntStr(stripped)
        correct == parsed.ok /\ parsed.val = a
    IN  IF correct
        THEN [user_in |-> stripped, correct |-> TRUE, streak |-> st + 1,
              score |-> sc + points_for(t, TRUE, st)]
        ELSE [user_in |-> stripped, correct |-> FALSE, streak |-> 0,
              score |-> sc]

\* Judged keeping the streak on a wrong answer
JudgedKeepStreak(line, t, a, sc, st) ==
    LET stripped == Strip(line)
        parsed == PyIntStr(stripped)
        correct == parsed.ok /\ parsed.val = a
    IN  IF correct
        THEN [user_in |-> stripped, correct |-> TRUE, streak |-> st + 1,
              score |-> sc + points_for(t, TRUE, st + 1)]
        ELSE [user_in |-> stripped, correct |-> FALSE, streak |-> st,
              score |-> sc]

\* lines 115, 121-134: what the statements make of a line, judged against
\* the answer a; sc and st are the score and the streak before, t the latency
Judged(line, t, a, sc, st) ==
    LET stripped == Strip(line)
        parsed == PyIntStr(stripped)
        correct == parsed.ok /\ parsed.val = a
    IN  IF correct
        THEN [user_in |-> stripped, correct |-> TRUE, streak |-> st + 1,
              score |-> sc + points_for(t, TRUE, st + 1)]
        ELSE [user_in |-> stripped, correct |-> FALSE, streak |-> 0,
              score |-> sc]

\* the latency t of the question being processed, once line 118 has run
LastTime == times[Len(times)]

\* line 115: input() returns a line, which is stripped
ReadLine ==
    /\ pc = "input"
    /\ \E line \in InputLines :
        user_in' = Judged(line, now - t0, ans, score, streak).user_in
    /\ pc' = "got"
    /\ UNCHANGED <<d, now, end_time, score, asked, streak, times, ans, t0,
                   stop, result, hist>>
    /\ UNCHANGED <<pvars, hvars, ovars>>

\* lines 116-118: the latency is measured and appended
AppendTime ==
    /\ pc = "got"
    /\ times' = Append(times, now - t0)
    /\ pc' = "timed"
    /\ UNCHANGED <<d, now, end_time, score, asked, streak, ans, t0, user_in,
                   stop, result, hist>>
    /\ UNCHANGED <<pvars, hvars, ovars>>

\* line 119
CountAsked ==
    /\ pc = "timed"
    /\ asked' = asked + 1
    /\ pc' = "counted"
    /\ UNCHANGED <<d, now, end_time, score, streak, times, ans, t0, user_in,
                   stop, result, hist>>
    /\ UNCHANGED <<pvars, hvars, ovars>>

\* lines 121-127: the line is parsed and compared, the branch is taken
Judge ==
    /\ pc = "counted"
    /\ LET j == Judged(user_in, LastTime, ans, score, streak)
       IN  /\ pc' = IF j.correct THEN "right" ELSE "wrong"
           /\ hist' = Append(hist, [t |-> LastTime, correct |-> j.correct])
    /\ UNCHANGED <<d, now, end_time, score, asked, streak, times, ans, t0,
                   user_in, stop, result>>
    /\ UNCHANGED <<pvars, hvars, ovars>>

\* line 128
IncStreak ==
    /\ pc = "right"
    /\ streak' = Judged(user_in, LastTime, ans, score, streak).streak
    /\ pc' = "streaked"
    /\ UNCHANGED <<d, now, end_time, score, asked, times, ans, t0, user_in,
                   stop, result, hist>>
    /\ UNCHANGED <<pvars, hvars, ovars>>

\* lines 129-131: the points of the incremented streak are added
AddScore ==
    /\ pc = "streaked"
    /\ score' = Judged(user_in, LastTime, ans, score, streak - 1).score
    /\ pc' = "loop"
    /\ UNCHANGED <<d, now, end_time, asked, streak, times, ans, t0, user_in,
                   stop, result, hist>>
    /\ UNCHANGED <<pvars, hvars, ovars>>

\* lines 132-133
ResetStreak ==
    /\ pc = "wrong"
    /\ streak' = Judged(user_in, LastTime, ans, score, streak).streak
    /\ pc' = "loop"
    /\ UNCHANGED <<d, now, end_time, score, asked, times, ans, t0, user_in,
                   stop, result, hist>>
    /\ UNCHANGED <<pvars, hvars, ovars>>

\* InterruptInput counting the unanswered question
InterruptInputCounted ==
    /\ pc = "input"
    /\ pc' = "stopped"
    /\ stop' = "aborted"
    /\ result' = <<score, asked + 1, times>>
    /\ UNCHANGED <<d, now, end_time, score, asked, streak, times, ans, t0,
                   user_in, hist>>
    /\ UNCHANGED <<pvars, hvars, ovars>>

\* lines 135-138: KeyboardInterrupt raised by input()
InterruptInput ==
    /\ pc = "input"
    /\ pc' = "stopped"
    /\ stop' = "aborted"
    /\ result' = <<score, asked, times>>
    /\ UNCHANGED <<d, now, end_time, score, asked, streak, times, ans, t0,
                   user_in, hist>>
    /\ UNCHANGED <<pvars, hvars, ovars>>

\* lines 135-138: KeyboardInterrupt between two statements inside the try;
\* the locals are returned as they stand
InterruptRunning ==
    /\ pc \in RunningPoints
    /\ pc' = "stopped"
    /\ stop' = "aborted"
    /\ result' = <<score, asked, times>>
    /\ UNCHANGED <<d, now, end_time, score, asked, streak, times, ans, t0,
                   user_in, hist>>
    /\ UNCHANGED <<pvars, hvars, ovars>>

\* KeyboardInterrupt where no handler is in force: in lines 104-108, before
\* the try, or, after one caught at line 135, a second one while line 136
\* prints; the exception leaves game_round
InterruptEscapes ==
    /\ pc \in {"setup", "input"} \cup RunningPoints
    /\ pc' = "raised"
    /\ UNCHANGED <<d, now, end_time, score, asked, streak, times, ans, t0,
                   user_in, stop, result, hist>>
    /\ UNCHANGED <<pvars, hvars, ovars>>

\* line 115: input() raises EOFError, which game_round does not catch
EndOfInput ==
    /\ pc = "input"
    /\ pc' = "raised"
    /\ UNCHANGED <<d, now, end_time, score, asked, streak, times, ans, t0,
                   user_in, stop, result, hist>>
    /\ UNCHANGED <<pvars, hvars, ovars>>

----------------------------------------------------------------------------
(* make_problem on its own *)

MaxOperand == 3         \* profile bounds range over -1..MaxOperand

\* the catalog entry k with its operand range replaced by lo..hi
Profile(k, lo, hi) ==
    [name |-> DIFFICULTIES[k].name, n_min |-> lo, n_max |-> hi,
     ops |-> DIFFICULTIES[k].ops,
     round_seconds |-> DIFFICULTIES[k].round_seconds]

\* profiles with n_min <= n_max and the operator tuples of the catalog
Profiles ==
    {Profile(k, r[1], r[2]) :
        k \in 1..Len(DIFFICULTIES),
        r \in {x \in ((-1)..MaxOperand) \X ((-1)..MaxOperand) : x[1] <= x[2]}}

NoDraw == [i |-> 0, a |-> 0, b |-> 0, divisor |-> 0, quotient |-> 0]

NoProblem == [q |-> <<>>, ans |-> 0]

\* lines 66-86, one call
MakeProblem ==
    /\ pc = "idle"
    /\ \E r \in Draws(d) :
        /\ draw' = r
        /\ problem' = make_problem(d, r)
    /\ pc' = "returned"
    /\ UNCHANGED <<d, now, end_time, score, asked, streak, times, ans, t0,
                   user_in, stop, result, hist>>
    /\ UNCHANGED <<hvars, ovars>>

----------------------------------------------------------------------------
(* The score file: load_highscore, save_highscore, maybe_update_highscore *)

MaxBest == 3            \* scores and stored bests range up to MaxBest

Names == {"Easy", "Normal"}

\* JSON values: t is the Python type json.load gives, n its number (an int;
\* for a float the number of halves; for a bool 0 or 1), s its text
JInt(n) == [t |-> "int", n |-> n, s |-> <<>>]

JFloat(halves) == [t |-> "float", n |-> halves, s |-> <<>>]

JStr(s) == [t |-> "str", n |-> 0, s |-> s]

JNull == [t |-> "NoneType", n |-> 0, s |-> <<>>]

JBool(b) == [t |-> "bool", n |-> IF b THEN 1 ELSE 0, s |-> <<>>]

StoredValues ==
    {JInt(n) : n \in (-1)..MaxBest}
        \cup {JFloat(3), JStr(<<"2">>), JStr(<<"x">>), JNull, JBool(TRUE)}

EmptyDict == [k \in {} |-> JNull]

Dicts == UNION {[S -> StoredValues] : S \in SUBSET Names}

\* the file: absent, not openable for reading, not JSON, JSON that is not an
\* object ("array"), or a JSON object
FileStates ==
    {[kind |-> k, obj |-> EmptyDict] :
        k \in {"missing", "unreadable", "malformed", "array"}}
        \cup {[kind |-> "object", obj |-> m] : m \in Dicts}

\* lines 39-47
load_highscore(f) == IF f.kind = "object" THEN f.obj ELSE EmptyDict

\* lines 49-54: the file after save_highscore(best); outcome says how the
\* write went: "ok", "open_failed" (open raised, the file is untouched) or
\* "dump_failed" (the file was truncated and the dump raised).  A file that
\* cannot be opened for reading stays so, whatever is written into it
save_highscore(f, best, outcome) ==
    CASE f.kind = "unreadable" -> f
      [] outcome = "ok" -> [kind |-> "object", obj |-> best]
      [] outcome = "open_failed" -> f
      [] OTHER -> [kind |-> "malformed", obj |-> EmptyDict]

WriteOutcomes == {"ok", "open_failed", "dump_failed"}

\* int(v) of a loaded value: ok = FALSE stands for ValueError or TypeError
PyInt(v) ==
    CASE v.t \in {"int", "bool"} -> [ok |-> TRUE, val |-> v.n]
      [] v.t = "float" ->
            [ok |-> TRUE,
             val |-> IF v.n >= 0 THEN v.n \div 2 ELSE -((-v.n) \div 2)]
      [] v.t = "str" -> PyIntStr(v.s)
      [] OTHER -> [ok |-> FALSE, val |-> 0]

\* dict.get(key, default)
Get(m, key, default) == IF key \in DOMAIN m THEN m[key] ELSE default

\* Put keeping no other key
PutAlone(m, key, v) == [k \in {key} |-> v]

\* m[key] = v
Put(m, key, v) == [k \in DOMAIN m \cup {key} |-> IF k = key THEN v ELSE m[k]]

NoSave == [called |-> FALSE, best |-> EmptyDict, outcome |-> "none"]

NoRet == [raised |-> FALSE, improved |-> FALSE, best |-> 0]

\* maybe_update_highscore comparing with >=
maybe_update_highscore_ge(f, diff_name, sc, outcome) ==
    LET hs == load_highscore(f)
        best == PyInt(Get(hs, diff_name, JInt(0)))
    IN  IF ~best.ok
        THEN [file |-> f, saved |-> NoSave,
              ret |-> [raised |-> TRUE, improved |-> FALSE, best |-> 0]]
        ELSE IF sc >= best.val
        THEN [file |-> save_highscore(f, Put(hs, diff_name, JInt(sc)), outcome),
              saved |-> [called |-> TRUE, best |-> Put(hs, diff_name, JInt(sc)),
                         outcome |-> outcome],
              ret |-> [raised |-> FALSE, improved |-> TRUE, best |-> sc]]
        ELSE [file |-> f, saved |-> NoSave,
              ret |-> [raised |-> FALSE, improved |-> FALSE, best |-> best.val]]

\* maybe_update_highscore taking -1 as the best of an absent name
maybe_update_highscore_absent(f, diff_name, sc, outcome) ==
    LET hs == load_highscore(f)
        best == PyInt(Get(hs, diff_name, JInt(-1)))
    IN  IF ~best.ok
        THEN [file |-> f, saved |-> NoSave,
              ret |-> [raised |-> TRUE, improved |-> FALSE, best |-> 0]]
        ELSE IF sc > best.val
        THEN [file |-> save_highscore(f, Put(hs, diff_name, JInt(sc)), outcome),
              saved |-> [called |-> TRUE, best |-> Put(hs, diff_name, JInt(sc)),
                         outcome |-> outcome],
              ret |-> [raised |-> FALSE, improved |-> TRUE, best |-> sc]]
        ELSE [file |-> f, saved |-> NoSave,
              ret |-> [raised |-> FALSE, improved |-> FALSE, best |-> best.val]]

\* lines 156-163: the file, the save made and the value returned
maybe_update_highscore(f, diff_name, sc, outcome) ==
    LET hs == load_highscore(f)
        best == PyInt(Get(hs, diff_name, JInt(0)))
    IN  IF ~best.ok
        THEN [file |-> f, saved |-> NoSave,
              ret |-> [raised |-> TRUE, improved |-> FALSE, best |-> 0]]
        ELSE IF sc > best.val
        THEN [file |-> save_highscore(f, Put(hs, diff_name, JInt(sc)), outcome),
              saved |-> [called |-> TRUE, best |-> Put(hs, diff_name, JInt(sc)),
                         outcome |-> outcome],
              ret |-> [raised |-> FALSE, improved |-> TRUE, best |-> sc]]
        ELSE [file |-> f, saved |-> NoSave,
              ret |-> [raised |-> FALSE, improved |-> FALSE, best |-> best.val]]

NoCall == [name |-> "", score |-> 0]

\* lines 171: one round end
MaybeUpdateHighscore ==
    /\ \E diff_name \in Names, sc \in 0..MaxBest, outcome \in WriteOutcomes :
        LET r == maybe_update_highscore(file, diff_name, sc, outcome)
        IN  /\ call' = [name |-> diff_name, score |-> sc]
            /\ file' = r.file
            /\ saved' = r.saved
            /\ ret' = r.ret
            /\ subm' = [subm EXCEPT ![diff_name] =
                            [any |-> TRUE,
                             max |-> IF @.any THEN Max2(@.max, sc) ELSE sc]]
            /\ clean' = (clean /\ ~r.ret.raised
                                /\ r.saved.outcome \in {"none", "ok"})
    /\ file0' = file0
    /\ UNCHANGED <<rvars, pvars, ovars>>

----------------------------------------------------------------------------
(* Two processes ending a round against the same score file *)

Procs == {1, 2}

\* a process before its call of maybe_update_highscore; keys is the order of
\* the keys of its dict hs; buf is what f.read() has read so far and cap the
\* size of its buffer
NoProc == [pc |-> "start", name |-> "", score |-> 0, loaded |-> EmptyDict,
           hs |-> EmptyDict, keys |-> <<>>, buf |-> <<>>, cap |-> 0,
           saved |-> "none", ret |-> NoRet]

\* the file between open(..., "w") and the write of the dump
Truncated == [kind |-> "malformed", obj |-> EmptyDict]

Quote == "\""

\* the characters of a key
NameChars(name) == [i \in 1..Len(name) |-> SubSeq(name, i, i)]

\* the string of a sequence of characters
RECURSIVE Join(_)
Join(chars) == IF chars = <<>> THEN "" ELSE Head(chars) \o Join(Tail(chars))

\* json.dumps(v) of a stored value
ValueText(v) ==
    CASE v.t = "int" -> FormatInt(v.n)
      [] v.t = "float" ->
            (IF v.n < 0 /\ v.n > -2 THEN <<"-">> ELSE <<>>)
                \o FormatInt(IF v.n >= 0 THEN v.n \div 2 ELSE -((-v.n) \div 2))
                \o <<".", IF v.n % 2 = 0 THEN "0" ELSE "5">>
      [] v.t = "str" -> <<Quote>> \o v.s \o <<Quote>>
      [] v.t = "bool" -> IF v.n = 1 THEN <<"t", "r", "u", "e">>
                         ELSE <<"f", "a", "l", "s", "e">>
      [] OTHER -> <<"n", "u", "l", "l">>

RECURSIVE EntriesText(_, _)
EntriesText(m, keys) ==
    IF keys = <<>> THEN <<>>
    ELSE <<" ", " ", Quote>> \o NameChars(Head(keys)) \o <<Quote, ":", " ">>
            \o ValueText(m[Head(keys)])
            \o (IF Len(keys) > 1 THEN <<",", "\n">> ELSE <<>>)
            \o EntriesText(m, Tail(keys))

\* line 52: the text json.dump(best, f, indent=2) writes for the dict m whose
\* keys stand in the order keys
DumpText(m, keys) ==
    IF keys = <<>> THEN <<"{", "}">>
    ELSE <<"{", "\n">> \o EntriesText(m, keys) \o <<"\n", "}">>

\* json.load, line 42, on the texts two dumps can leave: an object of string
\* keys whose values are integers, strings, null or true; these texts hold no
\* fraction, exponent, escape, array or inner object
IsWs(c) == c \in {" ", "\n"}

RECURSIVE SkipWs(_, _)
SkipWs(s, i) == IF i <= Len(s) /\ IsWs(s[i]) THEN SkipWs(s, i + 1) ELSE i

\* the index of the quote that ends the string whose characters start at i,
\* 0 when there is none or a line break comes first
RECURSIVE StringEnd(_, _)
StringEnd(s, i) ==
    IF i > Len(s) THEN 0
    ELSE IF s[i] = Quote THEN i
    ELSE IF s[i] = "\n" THEN 0
    ELSE StringEnd(s, i + 1)

RECURSIVE DigitsEnd(_, _)
DigitsEnd(s, i) ==
    IF i <= Len(s) /\ IsDigit(s[i]) THEN DigitsEnd(s, i + 1) ELSE i

NoValue == [ok |-> FALSE, val |-> JNull, next |-> 0]

StartsWith(s, i, word) ==
    /\ i + Len(word) - 1 <= Len(s)
    /\ SubSeq(s, i, i + Len(word) - 1) = word

\* the JSON value that starts at i
ScanValue(s, i) ==
    IF i > Len(s) THEN NoValue
    ELSE IF s[i] = Quote
    THEN LET e == StringEnd(s, i + 1)
         IN  IF e = 0 THEN NoValue
             ELSE [ok |-> TRUE, val |-> JStr(SubSeq(s, i + 1, e - 1)),
                   next |-> e + 1]
    ELSE IF s[i] = "-" \/ IsDigit(s[i])
    THEN LET j == IF s[i] = "-" THEN i + 1 ELSE i
             e == IF j <= Len(s) /\ s[j] = "0" THEN j + 1 ELSE DigitsEnd(s, j)
             sign == IF s[i] = "-" THEN -1 ELSE 1
         IN  IF e = j THEN NoValue
             ELSE [ok |-> TRUE,
                   val |-> JInt(sign * DigitsValue(SubSeq(s, j, e - 1), 0)),
                   next |-> e]
    ELSE IF StartsWith(s, i, <<"n", "u", "l", "l">>)
    THEN [ok |-> TRUE, val |-> JNull, next |-> i + 4]
    ELSE IF StartsWith(s, i, <<"t", "r", "u", "e">>)
    THEN [ok |-> TRUE, val |-> JBool(TRUE), next |-> i + 4]
    ELSE NoValue

NoObject == [ok |-> FALSE, obj |-> EmptyDict, keys |-> <<>>, next |-> 0]

\* the members of an object from the key that starts at i
RECURSIVE Members(_, _, _, _)
Members(s, i, obj, keys) ==
    IF i > Len(s) \/ s[i] # Quote THEN NoObject
    ELSE LET e == StringEnd(s, i + 1)
             key == Join(SubSeq(s, i + 1, e - 1))
             c == SkipWs(s, e + 1)
             v == ScanValue(s, SkipWs(s, c + 1))
             n == SkipWs(s, v.next)
         IN  IF e = 0 \/ c > Len(s) \/ s[c] # ":" \/ ~v.ok \/ n > Len(s)
             THEN NoObject
             ELSE LET obj2 == Put(obj, key, v.val)
                      keys2 == IF key \in DOMAIN obj THEN keys
                               ELSE Append(keys, key)
                  IN  IF s[n] = "}"
                      THEN [ok |-> TRUE, obj |-> obj2, keys |-> keys2,
                            next |-> n + 1]
                      ELSE IF s[n] = ","
                      THEN Members(s, SkipWs(s, n + 1), obj2, keys2)
                      ELSE NoObject

\* the object a text is, with its keys in order; ok = FALSE when json.load
\* raises
ParseObject(s) ==
    LET i == SkipWs(s, 1)
        j == SkipWs(s, i + 1)
        r == IF i > Len(s) \/ s[i] # "{" THEN NoObject
             ELSE IF j <= Len(s) /\ s[j] = "}"
             THEN [ok |-> TRUE, obj |-> EmptyDict, keys |-> <<>>,
                   next |-> j + 1]
             ELSE Members(s, j, EmptyDict, <<>>)
    IN  IF r.ok /\ SkipWs(s, r.next) = Len(s) + 1 THEN r ELSE NoObject

\* what the file is, given its text
FileOfText(s) ==
    IF ParseObject(s).ok
    THEN [kind |-> "object", obj |-> ParseObject(s).obj]
    ELSE IF s = <<"[", "]">> THEN [kind |-> "array", obj |-> EmptyDict]
    ELSE [kind |-> "malformed", obj |-> EmptyDict]

\* the values of the files the race starts from
RaceValues == {v \in StoredValues : v.t # "float"}

\* the leading parts of a text, the text itself among them
Prefixes(s) == {SubSeq(s, 1, n) : n \in 0..Len(s)}

\* the texts the race starts from: an empty array, the dump of a dict of at
\* most one entry, and what a failed write of such a dump has left of it
RaceTexts ==
    {<<"[", "]">>}
        \cup Prefixes(DumpText(EmptyDict, <<>>))
        \cup UNION {Prefixes(DumpText([k \in {e[1]} |-> e[2]], <<e[1]>>)) :
                        e \in Names \X RaceValues}

\* FileIO.readall under f.read() of json.load, line 42: the size of the
\* buffer once currentsize bytes have filled it
NewBufferSize(currentsize) ==
    LET grown == IF currentsize > 65536 THEN currentsize \div 8
                 ELSE 256 + currentsize
    IN  currentsize + (IF grown < 8192 THEN 8192 ELSE grown)

\* lines 157, 41-42: process p opens the file for reading, which raises when
\* there is none or it may not be read (line 46), and f.read() sizes its
\* buffer by the size the file then has
ProcLoad(p) ==
    /\ procs[p].pc = "start"
    /\ \E diff_name \in Names, sc \in 0..MaxBest :
        procs' = [procs EXCEPT ![p] =
            IF file.kind \in {"missing", "unreadable"}
            THEN [@ EXCEPT !.pc = "loaded", !.name = diff_name, !.score = sc]
            ELSE [@ EXCEPT !.pc = "reading", !.name = diff_name,
                           !.score = sc,
                           !.cap = IF Len(written) > 0 THEN Len(written) + 1
                                   ELSE 8192]]
    /\ UNCHANGED <<rvars, pvars, hvars, fvars, svars, written>>

\* lines 42-47: one read() of f.read(): it takes what the file holds now from
\* the place reached, as far as the buffer has room; the read that gets
\* nothing ends f.read(), and what was read is parsed into the dict of p
ProcRead(p) ==
    LET me == procs[p]
        off == Len(me.buf)
        size == IF off >= me.cap THEN NewBufferSize(off) ELSE me.cap
        upto == IF Len(written) < size THEN Len(written) ELSE size
        data == ParseObject(me.buf)
    IN  /\ me.pc = "reading"
        /\ procs' = [procs EXCEPT ![p] =
            IF upto > off
            THEN [@ EXCEPT !.buf = me.buf \o SubSeq(written, off + 1, upto),
                           !.cap = size]
            ELSE [@ EXCEPT !.pc = "loaded", !.buf = <<>>, !.cap = 0,
                           !.loaded = data.obj, !.hs = data.obj,
                           !.keys = data.keys]]
        /\ UNCHANGED <<rvars, pvars, hvars, fvars, svars, written>>

\* ProcCompare reading the file again before it sets its entry
ProcCompareReload(p) ==
    LET me == procs[p]
        best == PyInt(Get(me.hs, me.name, JInt(0)))
        again == load_highscore(file)
        order == IF file.kind = "object" THEN ParseObject(written).keys
                 ELSE <<>>
    IN  /\ me.pc = "loaded"
        /\ procs' = [procs EXCEPT ![p] =
            IF ~best.ok
            THEN [@ EXCEPT !.pc = "done", !.ret.raised = TRUE]
            ELSE IF me.score > best.val
            THEN [@ EXCEPT !.pc = "saving",
                           !.hs = Put(again, me.name, JInt(me.score)),
                           !.keys = IF me.name \in DOMAIN again THEN order
                                    ELSE Append(order, me.name)]
            ELSE [@ EXCEPT !.pc = "done", !.ret.best = best.val]]
        /\ UNCHANGED <<rvars, pvars, hvars, fvars, svars, written>>

\* lines 158-160, 163: process p compares and sets its entry in its dict
ProcCompare(p) ==
    LET me == procs[p]
        best == PyInt(Get(me.hs, me.name, JInt(0)))
    IN  /\ me.pc = "loaded"
        /\ procs' = [procs EXCEPT ![p] =
            IF ~best.ok
            THEN [@ EXCEPT !.pc = "done", !.ret.raised = TRUE]
            ELSE IF me.score > best.val
            THEN [@ EXCEPT !.pc = "saving",
                           !.hs = Put(me.hs, me.name, JInt(me.score)),
                           !.keys = IF me.name \in DOMAIN me.hs THEN me.keys
                                    ELSE Append(me.keys, me.name)]
            ELSE [@ EXCEPT !.pc = "done", !.ret.best = best.val]]
        /\ UNCHANGED <<rvars, pvars, hvars, fvars, svars, written>>

\* line 51: open(..., "w") empties the file, or raises and line 53 passes
ProcOpen(p) ==
    /\ procs[p].pc = "saving"
    /\ \/ /\ file' = IF file.kind = "unreadable" THEN file ELSE Truncated
          /\ written' = <<>>
          /\ procs' = [procs EXCEPT ![p].pc = "dumping"]
       \/ /\ file' = save_highscore(file, procs[p].hs, "open_failed")
          /\ written' = written
          /\ procs' = [procs EXCEPT ![p] =
                [@ EXCEPT !.pc = "done", !.saved = "open_failed",
                          !.ret = [raised |-> FALSE, improved |-> TRUE,
                                   best |-> procs[p].score]]]
    /\ UNCHANGED <<call, saved, ret, file0, subm, clean>>
    /\ UNCHANGED <<rvars, pvars, fvars, svars>>

\* lines 52-54, 162: on leaving the with block the text of the dump is
\* written from offset 0 over what the file then holds, of which the part
\* beyond the bytes written remains; all of the text is written, or the
\* write raises after n of its characters and line 53 passes
ProcDump(p) ==
    /\ procs[p].pc = "dumping"
    /\ LET text == DumpText(procs[p].hs, procs[p].keys)
       IN  \E n \in 0..Len(text) :
            LET left == SubSeq(text, 1, n)
                        \o SubSeq(written, n + 1, Len(written))
            IN  /\ written' = left
                /\ file' = IF file.kind = "unreadable" THEN file
                           ELSE FileOfText(left)
                /\ procs' = [procs EXCEPT ![p] =
                    [@ EXCEPT !.pc = "done",
                              !.saved = IF n = Len(text) THEN "ok"
                                        ELSE "dump_failed",
                              !.ret = [raised |-> FALSE, improved |-> TRUE,
                                       best |-> procs[p].score]]]
    /\ UNCHANGED <<call, saved, ret, file0, subm, clean>>
    /\ UNCHANGED <<rvars, pvars, fvars, svars>>

----------------------------------------------------------------------------
(* points_for on its own *)

MaxLatency == 12        \* answer times range over 0..MaxLatency ticks
MaxStreak == 7          \* streaks range over 0..MaxStreak

NoArgs == [answer_time |-> 0, correct |-> FALSE, streak |-> 0]

PointsArgs ==
    [answer_time : 0..MaxLatency, correct : BOOLEAN, streak : 0..MaxStreak]

\* lines 88-98, one call
PointsFor ==
    /\ pc = "idle"
    /\ gained' = points_for(args.answer_time, args.correct, args.streak)
    /\ pc' = "returned"
    /\ UNCHANGED <<d, now, end_time, score, asked, streak, times, ans, t0,
                   user_in, stop, result, hist>>
    /\ UNCHANGED <<pvars, hvars, args, svars, cvars>>

----------------------------------------------------------------------------
(* round_summary on its own *)

MaxTimes == 3           \* up to MaxTimes latencies are summarised
MaxTick == 3            \* each of 0..MaxTick ticks

RECURSIVE SumSeq(_)
SumSeq(ts) == IF ts = <<>> THEN 0 ELSE Head(ts) + SumSeq(Tail(ts))

RECURSIVE MinSeq(_)
MinSeq(ts) ==
    IF Len(ts) = 1 THEN ts[1] ELSE Min2(Head(ts), MinSeq(Tail(ts)))

RECURSIVE MaxSeq(_)
MaxSeq(ts) ==
    IF Len(ts) = 1 THEN ts[1] ELSE Max2(Head(ts), MaxSeq(Tail(ts)))

\* lines 100-101: f"{s:.2f}s" for s = num/den seconds, num >= 0: the value
\* in hundredths, a tie going to the even neighbour (a tie is a multiple of
\* 1/8 here, which a double holds exactly)
fmt_time(num, den) ==
    LET q == (100 * num) \div den
        r == (100 * num) % den
        h == IF 2 * r < den THEN q
             ELSE IF 2 * r > den THEN q + 1
             ELSE IF q % 2 = 0 THEN q ELSE q + 1
    IN  FormatNat(h \div 100)
            \o <<".", DigitChars[((h \div 10) % 10) + 1], DigitChars[(h % 10) + 1],
                 "s">>

\* the placeholder of line 151-153 (U+2014 in the source)
NoData == <<"-">>

\* round_summary reporting zeros when there are no latencies
round_summary_zero(sc, n, ts) ==
    [asked |-> FormatInt(n),
     score |-> FormatInt(sc),
     avg |-> IF ts # <<>> THEN fmt_time(SumSeq(ts), 2 * Len(ts))
             ELSE fmt_time(0, 1),
     best |-> IF ts # <<>> THEN fmt_time(MinSeq(ts), 2) ELSE fmt_time(0, 1),
     worst |-> IF ts # <<>> THEN fmt_time(MaxSeq(ts), 2) ELSE fmt_time(0, 1)]

\* lines 140-154: the fields of the text returned; ts are latencies in ticks
round_summary(sc, n, ts) ==
    [asked |-> FormatInt(n),
     score |-> FormatInt(sc),
     avg |-> IF ts # <<>> THEN fmt_time(SumSeq(ts), 2 * Len(ts)) ELSE NoData,
     best |-> IF ts # <<>> THEN fmt_time(MinSeq(ts), 2) ELSE NoData,
     worst |-> IF ts # <<>> THEN fmt_time(MaxSeq(ts), 2) ELSE NoData]

NoSummary == [asked |-> <<>>, score |-> <<>>, avg |-> <<>>, best |-> <<>>,
              worst |-> <<>>]

SummaryArgs ==
    {<<375 * k, n, ts>> :
        k \in 0..MaxTimes, n \in 0..MaxTimes,
        ts \in UNION {[1..len -> 0..MaxTick] : len \in 0..MaxTimes}}

\* lines 140-154, one call
RoundSummary ==
    /\ pc = "idle"
    /\ summary' = round_summary(sargs[1], sargs[2], sargs[3])
    /\ pc' = "returned"
    /\ UNCHANGED <<d, now, end_time, score, asked, streak, times, ans, t0,
                   user_in, stop, result, hist>>
    /\ UNCHANGED <<pvars, hvars, fvars, sargs, cvars>>

----------------------------------------------------------------------------
(* Specifications *)

RoundIdle ==
    /\ pc = "idle"
    /\ now = 0
    /\ end_time = 0
    /\ score = 0
    /\ asked = 0
    /\ streak = 0
    /\ times = <<>>
    /\ ans = 0
    /\ t0 = 0
    /\ user_in = <<>>
    /\ stop = "none"
    /\ result = <<>>
    /\ hist = <<>>

ProblemIdle ==
    /\ draw = NoDraw
    /\ problem = NoProblem

NoneSubmitted == [n \in Names |-> [any |-> FALSE, max |-> 0]]

ScoreFileIdle ==
    /\ file = [kind |-> "missing", obj |-> EmptyDict]
    /\ call = NoCall
    /\ saved = NoSave
    /\ ret = NoRet
    /\ file0 = file
    /\ subm = NoneSubmitted
    /\ clean = TRUE

PointsIdle ==
    /\ args = NoArgs
    /\ gained = 0

SummaryIdle ==
    /\ sargs = <<0, 0, <<>>>>
    /\ summary = NoSummary

RaceIdle ==
    /\ procs = [p \in Procs |-> NoProc]
    /\ written = <<>>

OthersIdle ==
    /\ PointsIdle
    /\ SummaryIdle
    /\ RaceIdle

\* one round of the game
Init ==
    /\ RoundStart
    /\ ProblemIdle
    /\ ScoreFileIdle
    /\ OthersIdle

Next ==
    \/ Setup
    \/ Tick
    \/ LoopEnter
    \/ LoopExit
    \/ Ask
    \/ ReadLine
    \/ AppendTime
    \/ CountAsked
    \/ Judge
    \/ IncStreak
    \/ AddScore
    \/ ResetStreak
    \/ InterruptInput
    \/ InterruptRunning
    \/ InterruptEscapes
    \/ EndOfInput

Spec == Init /\ [][Next]_vars

\* one round in which input() never meets the end of its stream
NextLive ==
    \/ Setup
    \/ Tick
    \/ LoopEnter
    \/ LoopExit
    \/ Ask
    \/ ReadLine
    \/ AppendTime
    \/ CountAsked
    \/ Judge
    \/ IncStreak
    \/ AddScore
    \/ ResetStreak
    \/ InterruptInput
    \/ InterruptRunning
    \/ InterruptEscapes

\* the clock advances, the interpreter runs the next statement of the loop,
\* and every open question is answered or interrupted
Fairness ==
    /\ WF_vars(Tick)
    /\ WF_vars(Setup)
    /\ WF_vars(LoopEnter)
    /\ WF_vars(LoopExit)
    /\ WF_vars(Ask)
    /\ WF_vars(ReadLine \/ InterruptInput)
    /\ WF_vars(AppendTime)
    /\ WF_vars(CountAsked)
    /\ WF_vars(Judge)
    /\ WF_vars(IncStreak)
    /\ WF_vars(AddScore)
    /\ WF_vars(ResetStreak)

SpecLive == Init /\ [][NextLive]_vars /\ Fairness

\* calls of make_problem
InitProblem ==
    /\ d \in Profiles
    /\ RoundIdle
    /\ ProblemIdle
    /\ ScoreFileIdle
    /\ OthersIdle

NextProblem == MakeProblem

SpecProblem == InitProblem /\ [][NextProblem]_vars

\* round ends against any score file
InitScoreFile ==
    /\ d = Easy
    /\ RoundIdle
    /\ ProblemIdle
    /\ file \in FileStates
    /\ call = NoCall
    /\ saved = NoSave
    /\ ret = NoRet
    /\ file0 = file
    /\ subm = NoneSubmitted
    /\ clean = TRUE
    /\ OthersIdle

NextScoreFile == MaybeUpdateHighscore

SpecScoreFile == InitScoreFile /\ [][NextScoreFile]_vars

\* calls of points_for
InitPoints ==
    /\ d = Easy
    /\ RoundIdle
    /\ ProblemIdle
    /\ ScoreFileIdle
    /\ args \in PointsArgs
    /\ gained = 0
    /\ SummaryIdle
    /\ RaceIdle

NextPoints == PointsFor

SpecPoints == InitPoints /\ [][NextPoints]_vars

\* calls of round_summary
InitSummary ==
    /\ d = Easy
    /\ RoundIdle
    /\ ProblemIdle
    /\ ScoreFileIdle
    /\ PointsIdle
    /\ sargs \in SummaryArgs
    /\ summary = NoSummary
    /\ RaceIdle

NextSummary == RoundSummary

SpecSummary == InitSummary /\ [][NextSummary]_vars

\* two processes, each ending one round against the same file
InitRace ==
    /\ d = Easy
    /\ RoundIdle
    /\ ProblemIdle
    /\ \/ /\ file \in {f \in FileStates : f.kind \in {"missing", "unreadable"}}
          /\ written = <<>>
       \/ /\ written \in RaceTexts
          /\ file = FileOfText(written)
    /\ call = NoCall
    /\ saved = NoSave
    /\ ret = NoRet
    /\ file0 = file
    /\ subm = NoneSubmitted
    /\ clean = TRUE
    /\ PointsIdle
    /\ SummaryIdle
    /\ procs = [p \in Procs |-> NoProc]

NextRace ==
    \E p \in Procs :
        \/ ProcLoad(p)
        \/ ProcRead(p)
        \/ ProcCompare(p)
        \/ ProcOpen(p)
        \/ ProcDump(p)

SpecRace == InitRace /\ [][NextRace]_vars

----------------------------------------------------------------------------
(* Properties of game_round, over Spec *)

\* the line last read parses to the answer of the open question
ReadRight == PyIntStr(user_in).ok /\ PyIntStr(user_in).val = ans

\* the score a history of answers yields, replayed from score sc and streak st
RECURSIVE Replay(_, _, _)
Replay(h, sc, st) ==
    IF h = <<>> THEN sc
    ELSE IF Head(h).correct
    THEN Replay(Tail(h), sc + points_for(Head(h).t, TRUE, st + 1), st + 1)
    ELSE Replay(Tail(h), sc, 0)

Latencies(h) == [k \in 1..Len(h) |-> h[k].t]

\* the number of correct answers at the end of a history
RECURSIVE TrailingCorrect(_)
TrailingCorrect(h) ==
    IF h = <<>> THEN 0
    ELSE IF h[Len(h)].correct
    THEN 1 + TrailingCorrect(SubSeq(h, 1, Len(h) - 1))
    ELSE 0

\* the statement that follows each position of the processing of an answer
Following ==
    [p \in {"input", "got", "timed", "counted", "right", "streaked", "wrong"} |->
        CASE p = "input" -> {"got"}
          [] p = "got" -> {"timed"}
          [] p = "timed" -> {"counted"}
          [] p = "counted" -> {"right", "wrong"}
          [] p = "right" -> {"streaked"}
          [] OTHER -> {"loop"}]

\* C1: an answer judged correct first increments the streak by exactly 1 and
\* then adds points_for(latency, True, incremented streak) to the score; a
\* correct first answer at 0.5 s leaves streak 1 and adds 258 or 259 points.
C1_CorrectAnswerScoring ==
    [][/\ (pc = "counted" /\ pc' = "right" => ReadRight)
       /\ (pc = "right" /\ pc' = "streaked" =>
            /\ streak' = streak + 1
            /\ score' = score
            /\ streak' = TrailingCorrect(hist))
       /\ (pc = "streaked" /\ pc' = "loop" =>
            /\ streak' = streak
            /\ score' = score + points_for(LastTime, TRUE, streak)
            /\ (asked = 1 /\ LastTime = 1 =>
                    streak' = 1 /\ (score' - score) \in {258, 259}))
       /\ (score' # score => pc = "streaked" /\ pc' = "loop")]_vars

\* a round whose first answer was correct and took 0.5 s
C1_Witness ==
    /\ pc = "loop"
    /\ asked = 1
    /\ times = <<1>>
    /\ ReadRight
    /\ streak = 1
    /\ score = 258

\* C2: an answer that does not parse as an integer, or parses to a value
\* other than the correct answer, is judged incorrect: it leaves the score
\* unchanged, resets the streak to 0, is counted in asked and in the
\* latencies, and the round continues.
C2_WrongAnswer ==
    [][/\ (pc = "counted" /\ ~ReadRight => pc' \in {"counted", "wrong", "stopped", "raised"})
       /\ (pc' = "wrong" =>
            /\ asked' = Len(times')
            /\ asked' = Len(hist')
            /\ ~hist'[asked'].correct
            /\ score' = Replay(SubSeq(hist', 1, asked' - 1), 0, 0))
       /\ (pc = "wrong" /\ pc' = "loop" =>
            /\ score' = score
            /\ streak' = 0
            /\ asked' = asked
            /\ times' = times
            /\ stop' = "none")]_vars

\* a correct answer followed by a line that is not a number
C2_Witness ==
    /\ pc = "loop"
    /\ asked = 2
    /\ hist[1].correct
    /\ ~PyIntStr(user_in).ok
    /\ user_in # <<>>
    /\ streak = 0
    /\ score = Replay(<<hist[1]>>, 0, 0)
    /\ score > 0
    /\ Len(times) = 2

\* C3: the deadline is looked at only at the top of the loop: a question is
\* issued only after a check that found the clock before the deadline, the
\* statements that record, judge and score its answer follow one another
\* whatever the clock says, and a check that finds the clock at or past the
\* deadline stops the round normally, after which nothing is asked.
C3_DeadlineAtLoopTop ==
    [][/\ (pc = "loop" /\ pc' = "ask" => now < end_time)
       /\ (pc \in DOMAIN Following =>
            /\ pc' \in {pc} \cup Following[pc] \cup {"stopped", "raised"}
            /\ (pc' = "stopped" => stop' = "aborted"))
       /\ (pc = "got" /\ pc' = "timed" => times' = Append(times, now - t0))
       /\ (pc = "timed" /\ pc' = "counted" => asked' = asked + 1)
       /\ (pc = "streaked" /\ pc' = "loop" =>
            score' = score + points_for(LastTime, TRUE, streak))
       /\ (pc = "loop" /\ now >= end_time =>
            \/ pc' = "loop"
            \/ pc' = "raised"
            \/ pc' = "stopped" /\ stop' \in {"normal", "aborted"})
       /\ (stop' = "normal" =>
            (pc = "loop" /\ now >= end_time) \/ stop = "normal")
       /\ (pc = "stopped" => pc' = "stopped" /\ asked' = asked /\ times' = times)
      ]_vars

\* a round stopped normally whose last question was issued before the
\* deadline and answered, correctly, after it
C3_Witness ==
    /\ pc = "stopped"
    /\ stop = "normal"
    /\ asked >= 1
    /\ t0 < end_time
    /\ t0 + times[asked] > end_time
    /\ hist[asked].correct
    /\ score = Replay(hist, 0, 0)
    /\ score > 0
    /\ result = <<score, asked, times>>

\* C4: an interrupt while the round waits for an answer stops it as aborted
\* and returns the score, the count and the latencies of the questions
\* answered before, which is what a normal stop returns after that history.
C4_InterruptKeepsResult ==
    [][/\ (pc = "input" /\ pc' = "stopped" =>
            /\ stop' = "aborted"
            /\ result' = <<score, asked, times>>
            /\ result' = <<Replay(hist, 0, 0), Len(hist), Latencies(hist)>>)
       /\ (stop' = "normal" =>
            result' = <<Replay(hist', 0, 0), Len(hist'), Latencies(hist')>>)
      ]_vars

\* interrupted while a second question was open: the first, answered
\* correctly, took longer than the second had been open
C4_Witness ==
    /\ pc = "stopped"
    /\ stop = "aborted"
    /\ asked >= 1
    /\ t0 + times[asked] > now
    /\ score > 0
    /\ result = <<score, asked, times>>

\* C5: a round with round_seconds = 0 issues no question and returns score 0,
\* asked 0 and no latencies.
C5_ZeroSecondsRound ==
    (pc # "idle" /\ d.round_seconds = 0) =>
        /\ pc \in {"setup", "loop", "stopped", "raised"}
        /\ asked = 0
        /\ times = <<>>
        /\ (pc = "stopped" => result = <<0, 0, <<>>>>)

\* a round of zero seconds that stopped at its first check
C5_Witness ==
    /\ d.round_seconds = 0
    /\ pc = "stopped"
    /\ stop = "normal"
    /\ result = <<0, 0, <<>>>>

\* C17: between questions the streak is the number of consecutive correct
\* answers that end the history: 0 at the start and after an incorrect
\* answer; and the streak is never more than the questions asked.
C17_StreakIsTrailingCorrect ==
    /\ streak <= asked
    /\ (pc \in {"loop", "ask", "input"} =>
            /\ streak = TrailingCorrect(hist)
            /\ (asked = 0 => streak = 0)
            /\ (hist # <<>> /\ ~hist[Len(hist)].correct => streak = 0))

\* a wrong answer followed by a correct one
C17_Witness ==
    /\ pc = "loop"
    /\ asked = 2
    /\ ~hist[1].correct
    /\ hist[2].correct
    /\ streak = 1

\* C19: every result game_round returns has asked equal to the number of
\* latencies, and a score from 0 to 375 times asked.
C19_ResultBounds ==
    pc = "stopped" =>
        /\ result[2] = Len(result[3])
        /\ result[1] >= 0
        /\ result[1] <= 375 * result[2]

----------------------------------------------------------------------------
(* Properties of game_round, over SpecLive *)

\* C16: if the clock advances and every question is eventually answered or
\* interrupted, the round eventually stops and returns its result.
C16_RoundStops == <>[](pc = "stopped" /\ result = <<score, asked, times>>)

----------------------------------------------------------------------------
(* Properties of the score file, over SpecScoreFile *)

\* the file holds an object with an entry for name
Present(f, name) == f.kind = "object" /\ name \in DOMAIN f.obj

\* the best the file holds for name, 0 when there is no entry
CurrentBest(f, name) ==
    IF Present(f, name) THEN PyInt(f.obj[name]) ELSE [ok |-> TRUE, val |-> 0]

\* the mapping of the file with name set to sc
Updated(f, name, sc) ==
    LET base == IF f.kind = "object" THEN f.obj ELSE EmptyDict
    IN  [k \in DOMAIN base \cup {name} |->
            IF k = name THEN JInt(sc) ELSE base[k]]

\* C6: maybe_update_highscore(name, newScore) takes the current best for name,
\* 0 when absent; when newScore > best it saves the mapping with name set to
\* newScore and returns (True, newScore); otherwise it returns (False, best),
\* saves nothing and leaves the file as it was.
C6_UpdateIfBetter ==
    [][LET name == call'.name
           sc == call'.score
           cur == CurrentBest(file, name)
       IN  cur.ok =>
            IF sc > cur.val
            THEN /\ ret' = [raised |-> FALSE, improved |-> TRUE, best |-> sc]
                 /\ saved'.called
                 /\ saved'.best = Updated(file, name, sc)
                 /\ (saved'.outcome = "ok" /\ file.kind # "unreadable" =>
                        file' = [kind |-> "object",
                                 obj |-> Updated(file, name, sc)])
            ELSE /\ ret' = [raised |-> FALSE, improved |-> FALSE,
                            best |-> cur.val]
                 /\ ~saved'.called
                 /\ file' = file]_vars

\* a lower score after a better one is on file: (False, best), nothing saved
C6_Witness ==
    /\ call.name = "Easy"
    /\ file = [kind |-> "object", obj |-> [k \in {"Easy"} |-> JInt(MaxBest)]]
    /\ call.score \in 1..(MaxBest - 1)
    /\ ret = [raised |-> FALSE, improved |-> FALSE, best |-> MaxBest]
    /\ ~saved.called

\* C7 as stated: the record is written exactly when the new score is strictly
\* greater than the stored best or the name is absent from the record.
C7_WrittenWhenBetterOrAbsent ==
    [][LET name == call'.name
           sc == call'.score
           cur == CurrentBest(file, name)
       IN  cur.ok =>
            (saved'.called <=> (~Present(file, name) \/ sc > cur.val))]_vars

\* C7: the record is written exactly when the stored value converts to an
\* integer and the new score is strictly greater than the current best, which
\* is 0 for an absent name; a round that ends with score 0 under a name not in
\* the record writes nothing.
C7_WrittenWhenBetter ==
    [][LET name == call'.name
           sc == call'.score
           cur == CurrentBest(file, name)
       IN  /\ saved'.called <=> (cur.ok /\ sc > cur.val)
           /\ (~saved'.called => file' = file)
           /\ (~Present(file, name) /\ sc = 0 =>
                ~saved'.called /\ file' = file)]_vars

\* a round ended with score 0 under a name the record does not have
C7_Witness ==
    /\ call.name = "Easy"
    /\ call.score = 0
    /\ file.kind = "object"
    /\ DOMAIN file.obj = {"Normal"}
    /\ ~saved.called
    /\ ret = [raised |-> FALSE, improved |-> FALSE, best |-> 0]

\* C8: whatever the score file holds and however the write goes,
\* maybe_update_highscore returns an (improved, best) pair and raises nothing.
C8_NeverRaises == ~ret.raised

----------------------------------------------------------------------------
(* Properties of make_problem, over SpecProblem *)

\* the position of the first space of a displayed expression
FirstSpace(q) ==
    CHOOSE i \in 1..Len(q) : q[i] = " " /\ \A j \in 1..(i - 1) : q[j] # " "

ShownOp(q) == q[FirstSpace(q) + 1]

ShownLeft(q) == PyIntStr(SubSeq(q, 1, FirstSpace(q) - 1))

ShownRight(q) == PyIntStr(SubSeq(q, FirstSpace(q) + 3, Len(q)))

\* C9: a division problem has divisor >= 1, dividend % divisor = 0 and
\* dividend / divisor equal to the returned answer, for every profile with
\* n_min <= n_max.
C9_DivisionExact ==
    (pc = "returned" /\ ShownOp(problem.q) = "/") =>
        LET dividend == ShownLeft(problem.q)
            divisor == ShownRight(problem.q)
        IN  /\ dividend.ok
            /\ divisor.ok
            /\ divisor.val >= 1
            /\ dividend.val % divisor.val = 0
            /\ dividend.val \div divisor.val = problem.ans
            /\ dividend.val = problem.ans * divisor.val

\* a division of a profile with n_min = 0 and a divisor above 1
C9_Witness ==
    /\ pc = "returned"
    /\ d.n_min = 0
    /\ d.ops[draw.i] = "/"
    /\ ShownOp(problem.q) = "/"
    /\ ShownRight(problem.q).val = 3
    /\ ShownLeft(problem.q).val = 6
    /\ problem.ans = 2

\* C10: a subtraction problem has an answer >= 0, and its expression shows the
\* two operands drawn, larger first, whose difference is the answer.
C10_SubtractionNonNegative ==
    (pc = "returned" /\ ShownOp(problem.q) = "-") =>
        LET left == ShownLeft(problem.q)
            right == ShownRight(problem.q)
        IN  /\ problem.ans >= 0
            /\ left.ok
            /\ right.ok
            /\ left.val >= right.val
            /\ left.val - right.val = problem.ans
            /\ <<left.val, right.val>> \in {<<draw.a, draw.b>>, <<draw.b, draw.a>>}

\* a subtraction whose first draw was the smaller: the operands were swapped
C10_Witness ==
    /\ pc = "returned"
    /\ d.ops[draw.i] = "-"
    /\ draw.a < draw.b
    /\ ShownLeft(problem.q).val = draw.b
    /\ ShownRight(problem.q).val = draw.a
    /\ problem.ans = draw.b - draw.a

----------------------------------------------------------------------------
(* Properties of points_for, over SpecPoints *)

Scored == pc = "returned" /\ args.correct

\* base points plus speed bonus at answer time t, by the rule of section 4.2
BasePlusBonus(t) == 250 - 15 * (IF t < FiveSeconds THEN t ELSE FiveSeconds)

\* C11: for a correct answer and a streak of 5 or more the multiplier is
\* exactly 1.5: the points are those of streak 5, whatever the answer time.
C11_StreakCap ==
    (Scored /\ args.streak >= 5) =>
        /\ gained = points_for(args.answer_time, TRUE, 5)
        /\ 2 * gained - 3 * BasePlusBonus(args.answer_time) \in {-1, 0, 1}

\* a correct answer at streak 7, scored as at streak 5
C11_Witness ==
    /\ Scored
    /\ args.streak = 7
    /\ args.answer_time = 0
    /\ gained = 375

\* C12: for a correct answer after 5.0 s or more the speed bonus is 0: the
\* points are 100 x (1 + min(0.5, 0.10 x streak)) rounded; and the bonus is
\* never negative, so no answer scores less than that.
C12_NoBonusAfterFiveSeconds ==
    Scored =>
        /\ gained >= 10 * (10 + Min2(5, args.streak))
        /\ (args.answer_time >= FiveSeconds =>
                gained = 10 * (10 + Min2(5, args.streak)))

\* a correct answer after 6 s at streak 2
C12_Witness ==
    /\ Scored
    /\ args.answer_time = 12
    /\ args.streak = 2
    /\ gained = 120

\* C13: for a fixed streak the points of a correct answer do not increase
\* with the answer time.
C13_NonIncreasingInLatency ==
    Scored =>
        \A t2 \in args.answer_time..MaxLatency :
            gained >= points_for(t2, TRUE, args.streak)

\* an answer at 2.5 s that scores more than one at 3 s and less than one at 2 s
C13_Witness ==
    /\ Scored
    /\ args.answer_time = 5
    /\ args.streak = 1
    /\ gained = 193
    /\ gained > points_for(6, TRUE, 1)
    /\ gained < points_for(4, TRUE, 1)

\* C14: points_for(latency, False, streak) is 0 for every latency and streak,
\* and the call changes nothing: not its arguments, not the streak.
C14_WrongScoresZero ==
    [][(pc = "idle" /\ pc' = "returned") =>
        /\ (~args.correct => gained' = 0)
        /\ args' = args
        /\ streak' = streak
        /\ score' = score]_vars

\* a fast wrong answer on a long streak
C14_Witness ==
    /\ pc = "returned"
    /\ ~args.correct
    /\ args.answer_time = 0
    /\ args.streak = 5
    /\ gained = 0

----------------------------------------------------------------------------
(* Properties of round_summary, over SpecSummary *)

\* C15: with no latencies round_summary reports average, best and worst as
\* the no-data placeholder, not as 0 and not by an error, and still shows the
\* questions-asked count and the score it was given.
C15_EmptySummary ==
    (pc = "returned" /\ sargs[3] = <<>>) =>
        /\ summary.avg = NoData
        /\ summary.best = NoData
        /\ summary.worst = NoData
        /\ fmt_time(0, 1) \notin {summary.avg, summary.best, summary.worst}
        /\ PyIntStr(summary.asked) = [ok |-> TRUE, val |-> sargs[2]]
        /\ PyIntStr(summary.score) = [ok |-> TRUE, val |-> sargs[1]]

\* the summary of a round in which nothing was asked
C15_Witness ==
    /\ pc = "returned"
    /\ sargs = <<0, 0, <<>>>>
    /\ summary.avg = NoData
    /\ summary.asked = <<"0">>
    /\ summary.score = <<"0">>

----------------------------------------------------------------------------
(* Properties of two racing processes, over SpecRace *)

\* process p has reported a new high score and its save went through
SavedNewBest(p) ==
    /\ procs[p].pc = "done"
    /\ procs[p].ret.improved
    /\ procs[p].saved = "ok"

\* C18: two processes that load, compare and save without locking: a save
\* that goes through never merges: the file it leaves, when it is readable
\* JSON, holds exactly what its process loaded (be it read in pieces around a
\* write of the other process) with its own entry set, whatever the file held
\* in between (last writer wins); so when both load before either saves, the
\* later save drops the entry the earlier one wrote.
C18_LastWriterWins ==
    [][\A p \in Procs :
        (procs[p].pc = "dumping" /\ procs'[p].pc = "done"
            /\ procs'[p].saved = "ok") =>
                /\ procs'[p].ret.improved
                /\ procs[p].hs = Put(procs[p].loaded, procs[p].name,
                                     JInt(procs[p].score))
                /\ (file'.kind = "object" => file'.obj = procs[p].hs)
                /\ (file.kind # "unreadable"
                        /\ Len(DumpText(procs[p].hs, procs[p].keys))
                                >= Len(written)
                        => file'.kind = "object")]_vars

\* both processes loaded the missing file, both reported a new high score and
\* saved, and the file lacks the score of process 1
C18_Witness ==
    /\ file0.kind = "missing"
    /\ SavedNewBest(1)
    /\ SavedNewBest(2)
    /\ procs[1].loaded = EmptyDict
    /\ procs[2].loaded = EmptyDict
    /\ procs[1].name = "Easy"
    /\ procs[1].score = 2
    /\ procs[2].name = "Normal"
    /\ procs[2].score = 1
    /\ file.kind = "object"
    /\ "Easy" \notin DOMAIN file.obj
    /\ file.obj["Normal"] = JInt(1)

----------------------------------------------------------------------------
(* Properties of a sequence of round ends, over SpecScoreFile *)

\* the entry of name in the file, JNull when there is none
Entry(f, name) == IF Present(f, name) THEN f.obj[name] ELSE JNull

\* the file held an object at the start, and so far no call has raised and
\* every save has gone through
AllWentWell == clean /\ file0.kind = "object"

\* C20: over round ends of one process whose loads return the stored object
\* and whose saves succeed, the stored best of each name never decreases and
\* is the maximum of its initial value and of the scores submitted under that
\* name, and a round end under one name leaves the entries of the other names
\* as they were.
C20_BestIsMaximum ==
    [][AllWentWell' =>
        \A n \in Names :
            LET init == CurrentBest(file0, n)
                before == CurrentBest(file, n)
                after == CurrentBest(file', n)
            IN  /\ (before.ok => after.ok /\ after.val >= before.val)
                /\ (init.ok /\ subm'[n].any =>
                        after.val = Max2(init.val, subm'[n].max))
                /\ (init.ok /\ ~subm'[n].any => after.val = init.val)
                /\ (n # call'.name =>
                        /\ Present(file', n) = Present(file, n)
                        /\ Entry(file', n) = Entry(file, n))]_vars

\* after Easy scores of 2 and then 1 against a file holding Easy 1 and
\* Normal 3: Easy is 2 and Normal is as it was
C20_Witness ==
    /\ AllWentWell
    /\ file0.obj = [n \in Names |-> IF n = "Easy" THEN JInt(1) ELSE JInt(3)]
    /\ subm["Easy"] = [any |-> TRUE, max |-> 2]
    /\ ~subm["Normal"].any
    /\ call = [name |-> "Easy", score |-> 1]
    /\ ~ret.improved
    /\ file.obj = [n \in Names |-> IF n = "Easy" THEN JInt(2) ELSE JInt(3)]

====
